---- MODULE Spec2Model ----
(***************************************************************************)
(* Model of the conclave simulation: the Election Coordinator              *)
(* (src/conclave.py, class Conclave), the per-cardinal vote history        *)
(* (src/cardinal.py) and the round ledger (src/round_results.py).          *)
(*                                                                         *)
(* A name is a sequence of one-character strings, so that                  *)
(* _normalize_name can be modelled character by character.                 *)
(***************************************************************************)
EXTENDS Integers, Sequences, FiniteSets, TLC

(***************************************************************************)
(* Bounds of the model.                                                    *)
(***************************************************************************)
\* size of the roster read from cardinals.json
NumCardinals == 3
\* run_simulation is called with max_rounds in 0..MaxRounds
MaxRounds == 2

(***************************************************************************)
(* Values.                                                                 *)
(***************************************************************************)
\* Python's None (Optional[str]); no roster name is the empty string
None == <<>>

\* characters standing for U+0301 (combining acute accent) and U+00A0
\* (no-break space)
Acute == "U+0301"
Nbsp == "U+00A0"

\* the names the roster manifest is filled from, in manifest order:
\* "Ab", "Cé", "D f", "G", "H"
AllNames == << <<"A", "b">>, <<"C", "é">>, <<"D", " ", "f">>, <<"G">>, <<"H">> >>

\* self.cardinals (the names, in roster order), built by _load_cardinals
cardinals == SubSeq(AllNames, 1, NumCardinals)

Agents == 1..Len(cardinals)

\* eligible_cardinals = [cardinal.name for cardinal in self.cardinals]
eligible_cardinals == cardinals

Range(s) == {s[i] : i \in DOMAIN s}

\* texts the oracle may return: the first roster name verbatim, the second
\* one in another case, without its diacritic and with a trailing no-break
\* space, and a text that names nobody (near misses of a name are among
\* the texts of SpecResolve)
Responses ==
    { <<"A", "b">>, <<"C", "E", Nbsp>>, <<"x">> }

(***************************************************************************)
(* Conclave._normalize_name and Conclave._find_matching_cardinal.          *)
(***************************************************************************)
\* unicodedata.normalize('NFKD', c) for one character
Decompose(c) ==
    CASE c = "é" -> <<"e", Acute>>
      [] c = "É" -> <<"E", Acute>>
      [] c = Nbsp -> <<" ">>
      [] OTHER -> <<c>>

\* unicodedata.combining(c) # 0
IsCombining(c) == c = Acute

\* str.isspace for one character (after NFKD)
IsSpace(c) == c \in {" ", Nbsp}

\* str.lower() for one character
LowerChar(c) ==
    CASE c = "A" -> "a"
      [] c = "B" -> "b"
      [] c = "C" -> "c"
      [] c = "D" -> "d"
      [] c = "E" -> "e"
      [] c = "É" -> "é"
      [] c = "F" -> "f"
      [] c = "G" -> "g"
      [] c = "H" -> "h"
      [] c = "X" -> "x"
      [] OTHER -> c

RECURSIVE NFKD(_)
NFKD(s) == IF s = <<>> THEN <<>> ELSE Decompose(Head(s)) \o NFKD(Tail(s))

RECURSIVE StripCombining(_)
StripCombining(s) ==
    IF s = <<>> THEN <<>>
    ELSE IF IsCombining(Head(s)) THEN StripCombining(Tail(s))
         ELSE <<Head(s)>> \o StripCombining(Tail(s))

\* ' '.join(s.split()): leading and trailing whitespace dropped, every inner
\* run of whitespace replaced by one space
RECURSIVE SplitJoin(_, _)
RECURSIVE SplitJoinWord(_)
SplitJoin(s, pending) ==
    IF s = <<>> THEN <<>>
    ELSE IF IsSpace(Head(s)) THEN SplitJoin(Tail(s), pending)
         ELSE (IF pending THEN <<" ">> ELSE <<>>) \o <<Head(s)>>
              \o SplitJoinWord(Tail(s))

SplitJoinWord(s) ==
    IF s = <<>> THEN <<>>
    ELSE IF IsSpace(Head(s)) THEN SplitJoin(Tail(s), TRUE)
         ELSE <<Head(s)>> \o SplitJoinWord(Tail(s))

Lower(s) == [i \in DOMAIN s |-> LowerChar(s[i])]

\* _normalize_name with the bug of a missing lower()
_normalize_name_CaseSensitive(name) ==
    SplitJoin(StripCombining(NFKD(name)), FALSE)

\* Conclave._normalize_name
_normalize_name(name) == Lower(SplitJoin(StripCombining(NFKD(name)), FALSE))

\* the first roster entry whose normalized name equals the normalized text
_find_matching_cardinal(voted_name) ==
    LET normalized_vote == _normalize_name(voted_name)
        hits == {i \in Agents : _normalize_name(cardinals[i]) = normalized_vote}
    IN  IF hits = {} THEN None
        ELSE cardinals[CHOOSE i \in hits : \A j \in hits : i <= j]

\* _find_matching_cardinal of a coordinator built over the given roster
find_matching_cardinal_in(roster, voted_name) ==
    LET normalized_vote == _normalize_name(voted_name)
        hits == {i \in DOMAIN roster :
                    _normalize_name(roster[i]) = normalized_vote}
    IN  IF hits = {} THEN None
        ELSE roster[CHOOSE i \in hits : \A j \in hits : i <= j]

(***************************************************************************)
(* The round tally (votes: Dict[str, int]) is an insertion-ordered         *)
(* mapping: a sequence of [name, count] entries, in the order in which     *)
(* each name received its first vote.                                      *)
(***************************************************************************)
TallyKeys(v) == {v[k].name : k \in DOMAIN v}

\* votes.get(name, 0)
TallyGet(v, name) ==
    IF name \in TallyKeys(v)
    THEN v[CHOOSE k \in DOMAIN v : v[k].name = name].count
    ELSE 0

\* TallyAdd with the bug of storing 1 instead of adding 1
TallyAdd_Overwrite(v, name) ==
    IF name \in TallyKeys(v)
    THEN [k \in DOMAIN v |->
            IF v[k].name = name THEN [v[k] EXCEPT !.count = 1] ELSE v[k]]
    ELSE Append(v, [name |-> name, count |-> 1])

\* votes[name] = votes.get(name, 0) + 1
TallyAdd(v, name) ==
    IF name \in TallyKeys(v)
    THEN [k \in DOMAIN v |->
            IF v[k].name = name THEN [v[k] EXCEPT !.count = @ + 1] ELSE v[k]]
    ELSE Append(v, [name |-> name, count |-> 1])

RECURSIVE SumCounts(_)
\* sum(votes.values())
SumCounts(v) == IF v = <<>> THEN 0 ELSE Head(v).count + SumCounts(Tail(v))

(***************************************************************************)
(* State.                                                                  *)
(***************************************************************************)
VARIABLES
    round_number,        \* Conclave.round_number
    pope_elected,        \* Conclave.pope_elected
    winner,              \* Conclave.winner
    frontrunners,        \* Conclave.frontrunners: ordered [name, ratio] entries,
                         \* a ratio count / total being the pair <<count, total>>
    round_results,       \* the ledger directory: round number -> RoundResult
    voting_history,      \* Cardinal.voting_history of each roster entry
    voting_history_file, \* the history file of each roster entry
    votes,               \* run_voting_round: the tally being built
    idx,                 \* run_voting_round: the roster entry whose turn it is
    local,               \* run_voting_round: the locals of the last turn
    max_rounds,          \* run_simulation: its argument
    returned,            \* run_simulation: its return value
    calls,               \* how many times run_voting_round was entered
    fr_votes,            \* the tally last handed to _update_frontrunners
    caller,              \* run_voting_round: who called it
    answers,             \* run_voting_round: whether every turn so far got
                         \* a valid answer, and for one and the same name
    loaded,              \* the histories as the constructor loaded them
    process,             \* how many times the program was started
    bio_file,            \* whether the bio file of each roster entry exists
    latest,              \* the last call of get_latest_round_result
    resolve_call,        \* the last call of _find_matching_cardinal by a test
    order_call,          \* a round computed in roster order and in another
    scan_call,           \* the last winner scan made by a test
    pc                   \* where the program is

vars == <<round_number, pope_elected, winner, frontrunners, round_results,
          voting_history, voting_history_file, votes, idx, local, max_rounds,
          returned, calls, fr_votes, caller, answers, loaded, process,
          bio_file, latest, resolve_call, order_call, scan_call, pc>>

\* what the rounds of a simulation leave alone
files_and_tests ==
    <<loaded, process, bio_file, latest, resolve_call, order_call, scan_call>>

NoLocal == [cardinal |-> 0, kind |-> "none", voted_for_raw |-> None,
            voted_for |-> None]

\* no turn taken yet in this round
NoAnswers == [state |-> "none", name |-> None]

\* answers after a turn of the given kind that recorded voted_for
NextAnswers(a, kind, voted_for) ==
    IF kind = "valid" /\ (a.state = "none" \/ (a.state = "same"
                                                /\ a.name = voted_for))
    THEN [state |-> "same", name |-> voted_for]
    ELSE [state |-> "mixed", name |-> None]

\* get_latest_round_result not called yet
NoLatest == [called |-> FALSE, ledger |-> <<>>, result |-> {}]

\* _find_matching_cardinal not called yet by a test
NoResolveCall == [roster |-> <<>>, name |-> None, text |-> None, out |-> None]

\* no round computed in two orders yet
NoOrderCall == [roster |-> <<>>, order |-> <<>>, inputs |-> <<>>,
                frontrunners |-> <<>>, in_roster_order |-> <<>>,
                in_order |-> <<>>]

\* no winner scan made by a test yet
NoScanCall == [total |-> 0, votes |-> <<>>, winner |-> None]

Last(s) == s[Len(s)]

(***************************************************************************)
(* Cardinal: history files and save_vote.                                  *)
(***************************************************************************)
\* a history file that does not exist
NoFile == [exists |-> FALSE, records |-> <<>>]

\* Cardinal._load_voting_history
_load_voting_history(file) == IF ~file.exists THEN <<>> ELSE file.records

\* save_vote with the bug of a record that takes the place of the last one
save_vote_ReplacesLast(history, round, voted_for) ==
    IF history = <<>>
    THEN <<[round |-> round, voted_for |-> voted_for]>>
    ELSE [history EXCEPT ![Len(history)] =
             [round |-> round, voted_for |-> voted_for]]

\* save_vote with the bug of a record that is not kept in memory
save_vote_DropsRecord(history, round, voted_for) == history

\* Cardinal.save_vote: the history after the append
save_vote(history, round, voted_for) ==
    Append(history, [round |-> round, voted_for |-> voted_for])

\* save_vote_file with the bug of a file that holds the new record only
save_vote_file_NewRecordOnly(history) ==
    [exists |-> TRUE, records |-> <<Last(history)>>]

\* Cardinal.save_vote: the file after the dump of the whole history
save_vote_file(history) == [exists |-> TRUE, records |-> history]

(***************************************************************************)
(* RoundResults: the ledger.                                               *)
(***************************************************************************)
\* RoundResults.save_round_result: one file per round number, overwritten
save_round_result(ledger, round_result) ==
    [r \in DOMAIN ledger \cup {round_result.round_number} |->
        IF r = round_result.round_number THEN round_result ELSE ledger[r]]

\* RoundResults.get_round_result: {} for None when the round has no file,
\* {outcome} otherwise
get_round_result(ledger, round) ==
    IF round \in DOMAIN ledger THEN {ledger[round]} ELSE {}

\* the decimal digits of a positive round number, as written into a file name
RECURSIVE Digits(_)
Digits(n) == IF n < 10 THEN <<n>> ELSE Append(Digits(n \div 10), n % 10)

\* int() of a string of decimal digits
RECURSIVE IntOf(_)
IntOf(d) == IF Len(d) = 0 THEN 0
            ELSE 10 * IntOf(SubSeq(d, 1, Len(d) - 1)) + d[Len(d)]

\* the stem of the file of round r: round_<r>_results, split at "_"
FileStem(r) == <<"round", Digits(r), "results">>

\* the files that glob("round_*_results.json") finds
result_files(ledger) == {FileStem(r) : r \in DOMAIN ledger}

\* string order of two file names that differ in their digits only: at the
\* first difference the greater digit wins; where one number is a prefix of
\* the other the next character of the shorter is "_", above every digit
StemLess(f, g) ==
    LET a == f[2]
        b == g[2]
        m == IF Len(a) < Len(b) THEN Len(a) ELSE Len(b)
        diff == {k \in 1..m : a[k] # b[k]}
    IN  IF diff = {} THEN Len(a) > Len(b)
        ELSE LET k == CHOOSE j \in diff : \A l \in diff : j <= l
             IN  a[k] < b[k]

\* get_latest_round_result with the bug of max() over the file names
\* themselves
get_latest_round_result_ByFileName(ledger) ==
    IF result_files(ledger) = {} THEN {}
    ELSE LET latest_file ==
                 CHOOSE f \in result_files(ledger) :
                     \A g \in result_files(ledger) : g = f \/ StemLess(g, f)
         IN  {ledger[IntOf(latest_file[2])]}

\* RoundResults.get_latest_round_result: the file whose number, read back
\* from its name, is the greatest; {} for None, {outcome} otherwise
get_latest_round_result(ledger) ==
    IF result_files(ledger) = {} THEN {}
    ELSE LET latest_file ==
                 CHOOSE f \in result_files(ledger) :
                     \A g \in result_files(ledger) :
                         IntOf(g[2]) <= IntOf(f[2])
         IN  {ledger[IntOf(latest_file[2])]}

(***************************************************************************)
(* Conclave: frontrunners and the fallback policy.                         *)
(***************************************************************************)
\* ratio > 0.15, for the ratio count / total
Above15(e) == e.ratio[1] * 100 > 15 * e.ratio[2]

\* _update_frontrunners with the bug of merging into self.frontrunners
_update_frontrunners_Merge(v) ==
    LET total_votes == SumCounts(v)
        support_ratios ==
            [k \in DOMAIN v |->
                [name |-> v[k].name, ratio |-> <<v[k].count, total_votes>>]]
        fresh == SelectSeq(support_ratios, Above15)
        Kept(e) == e.name \notin {fresh[k].name : k \in DOMAIN fresh}
    IN  SelectSeq(frontrunners, Kept) \o fresh

\* Conclave._update_frontrunners: the new value of self.frontrunners
_update_frontrunners(v) ==
    LET total_votes == SumCounts(v)
        support_ratios ==
            [k \in DOMAIN v |->
                [name |-> v[k].name, ratio |-> <<v[k].count, total_votes>>]]
    IN  SelectSeq(support_ratios, Above15)

\* x[1] < y[1] for two ratios
RatioLess(a, b) == a[1] * b[2] < b[1] * a[2]

\* MaxFrontrunner with the bug of keeping the last of the tied entries
MaxFrontrunner_LastOfTies(fr) ==
    fr[CHOOSE k \in DOMAIN fr :
          /\ \A j \in DOMAIN fr : ~RatioLess(fr[k].ratio, fr[j].ratio)
          /\ \A j \in DOMAIN fr : j > k => RatioLess(fr[j].ratio, fr[k].ratio)
      ].name

\* max(self.frontrunners.items(), key=lambda x: x[1])[0]: the first entry,
\* in iteration order, that no other entry exceeds
MaxFrontrunner(fr) ==
    fr[CHOOSE k \in DOMAIN fr :
          /\ \A j \in DOMAIN fr : ~RatioLess(fr[k].ratio, fr[j].ratio)
          /\ \A j \in DOMAIN fr : j < k => RatioLess(fr[j].ratio, fr[k].ratio)
      ].name

\* InvalidFallback with the bug of following the tally of the round in
\* progress
InvalidFallback_FollowsTally(i) ==
    IF voting_history[i] # <<>> THEN {Last(voting_history[i]).voted_for}
    ELSE IF votes # <<>> THEN {votes[1].name}
    ELSE Range(eligible_cardinals)

\* InvalidFallback with the bug of asking the frontrunners first
InvalidFallback_FrontrunnersFirst(i) ==
    IF frontrunners # <<>> THEN {MaxFrontrunner(frontrunners)}
    ELSE IF voting_history[i] # <<>> THEN {Last(voting_history[i]).voted_for}
    ELSE Range(eligible_cardinals)

\* InvalidFallback with the bug of a random choice that is always the first
\* eligible name
InvalidFallback_FirstEligible(i) ==
    IF voting_history[i] # <<>> THEN {Last(voting_history[i]).voted_for}
    ELSE IF frontrunners # <<>> THEN {MaxFrontrunner(frontrunners)}
    ELSE {eligible_cardinals[1]}

\* the votes the invalid-response branch may record for roster entry i
InvalidFallback(i) ==
    IF voting_history[i] # <<>> THEN {Last(voting_history[i]).voted_for}
    ELSE IF frontrunners # <<>> THEN {MaxFrontrunner(frontrunners)}
    ELSE Range(eligible_cardinals)

\* ErrorFallback with the bug of offering the frontrunner branch too
ErrorFallback_ConsultsFrontrunners(i) ==
    IF voting_history[i] # <<>> THEN {Last(voting_history[i]).voted_for}
    ELSE IF frontrunners # <<>> THEN {MaxFrontrunner(frontrunners)}
    ELSE Range(eligible_cardinals)

\* the votes the except branch may record for roster entry i
ErrorFallback(i) ==
    IF voting_history[i] # <<>> THEN {Last(voting_history[i]).voted_for}
    ELSE Range(eligible_cardinals)

\* _get_voting_prompt with the bug of a look-up of the round in progress
_get_voting_prompt_CurrentRound(i) ==
    LET previous_round == get_round_result(round_results, round_number)
    IN  [round |-> round_number,
         frontrunners |-> frontrunners,
         previous_round |-> {p.votes : p \in previous_round},
         last_vote |-> IF previous_round # {} /\ voting_history[i] # <<>>
                       THEN {Last(voting_history[i]).voted_for}
                       ELSE {}]

\* Conclave._get_voting_prompt for the i-th cardinal: what the text states.
\* The round number, the frontrunners with their support, the counts of
\* the previous round when the ledger has it and, inside that same test,
\* the cardinal's last vote ({} where the text has no such line)
_get_voting_prompt(i) ==
    LET previous_round == get_round_result(round_results, round_number - 1)
    IN  [round |-> round_number,
         frontrunners |-> frontrunners,
         previous_round |-> {p.votes : p \in previous_round},
         last_vote |-> IF previous_round # {} /\ voting_history[i] # <<>>
                       THEN {Last(voting_history[i]).voted_for}
                       ELSE {}]

\* _find_matching_cardinal(voted_for_raw) for each text the oracle may
\* return
MatchingCardinal == [t \in Responses |-> _find_matching_cardinal(t)]

\* the votes the turn of roster entry i may record when the oracle's
\* outcome is o: the name the answer resolves to, or a fallback
TurnChoices(i, o) ==
    IF o.raised THEN ErrorFallback(i)
    ELSE IF MatchingCardinal[o.text] \in Range(eligible_cardinals)
         THEN {MatchingCardinal[o.text]}
         ELSE InvalidFallback(i)

\* what get_completion does: it returns a text or raises
OracleOutcomes ==
    {[raised |-> FALSE, text |-> t] : t \in Responses}
        \cup {[raised |-> TRUE, text |-> None]}

(***************************************************************************)
(* Init: a coordinator just constructed over a data directory that holds   *)
(* no history file and no round result.                                    *)
(***************************************************************************)
Init ==
    /\ round_number = 0
    /\ pope_elected = FALSE
    /\ winner = None
    /\ frontrunners = <<>>
    /\ round_results = <<>>
    /\ voting_history_file = [i \in Agents |-> NoFile]
    /\ voting_history = [i \in Agents |-> _load_voting_history(NoFile)]
    /\ votes = <<>>
    /\ idx = 0
    /\ local = NoLocal
    /\ max_rounds \in 0..MaxRounds
    /\ returned = None
    /\ calls = 0
    /\ fr_votes = <<>>
    /\ caller = "run_simulation"
    /\ answers = NoAnswers
    /\ loaded = [i \in Agents |-> _load_voting_history(NoFile)]
    /\ process = 1
    /\ bio_file = [i \in Agents |-> TRUE]
    /\ latest = NoLatest
    /\ resolve_call = NoResolveCall
    /\ order_call = NoOrderCall
    /\ scan_call = NoScanCall
    /\ pc = "run_simulation"

\* StartRound with the bug of a round number that advances by two
StartRound_SkipsARound ==
    /\ pc = "run_simulation"
    /\ ~pope_elected /\ round_number < max_rounds
    /\ round_number' = round_number + 2
    /\ calls' = calls + 1
    /\ votes' = <<>>
    /\ idx' = 1
    /\ local' = NoLocal
    /\ pc' = IF Len(cardinals) = 0 THEN "tally" ELSE "vote"
    /\ answers' = NoAnswers
    /\ UNCHANGED <<pope_elected, winner, frontrunners, round_results,
                   voting_history, voting_history_file, max_rounds, returned,
                   fr_votes, caller, files_and_tests>>

\* StartRound with the bug of a loop test that forgets pope_elected
StartRound_IgnoresElected ==
    /\ pc = "run_simulation"
    /\ round_number < max_rounds
    /\ round_number' = round_number + 1
    /\ calls' = calls + 1
    /\ votes' = <<>>
    /\ idx' = 1
    /\ local' = NoLocal
    /\ pc' = IF Len(cardinals) = 0 THEN "tally" ELSE "vote"
    /\ answers' = NoAnswers
    /\ UNCHANGED <<pope_elected, winner, frontrunners, round_results,
                   voting_history, voting_history_file, max_rounds, returned,
                   fr_votes, caller, files_and_tests>>

(***************************************************************************)
(* run_simulation: the loop test is true, run_voting_round is entered.     *)
(***************************************************************************)
StartRound ==
    /\ pc = "run_simulation"
    /\ ~pope_elected /\ round_number < max_rounds
    /\ round_number' = round_number + 1
    /\ calls' = calls + 1
    /\ votes' = <<>>
    /\ idx' = 1
    /\ local' = NoLocal
    /\ pc' = IF Len(cardinals) = 0 THEN "tally" ELSE "vote"
    /\ answers' = NoAnswers
    /\ UNCHANGED <<pope_elected, winner, frontrunners, round_results,
                   voting_history, voting_history_file, max_rounds, returned,
                   fr_votes, caller, files_and_tests>>

\* CastVote with the bug of an oracle error that leaves the loop: no vote
\* is recorded and the round is abandoned
CastVote_ErrorPropagates ==
    /\ pc = "vote"
    /\ \E o \in OracleOutcomes :
         LET resolved == IF o.raised THEN None
                         ELSE MatchingCardinal[o.text]
             kind == IF o.raised THEN "error"
                     ELSE IF resolved \in Range(eligible_cardinals) THEN "valid"
                     ELSE "invalid"
             choices == CASE kind = "valid" -> {resolved}
                          [] kind = "invalid" -> InvalidFallback(idx)
                          [] kind = "error" -> {None}
         IN  \E voted_for \in choices :
               LET history == save_vote(voting_history[idx], round_number,
                                        voted_for)
               IN  /\ votes' = IF o.raised THEN votes
                                ELSE TallyAdd(votes, voted_for)
                   /\ voting_history' =
                          IF o.raised THEN voting_history
                          ELSE [voting_history EXCEPT ![idx] = history]
                   /\ voting_history_file' =
                          IF o.raised THEN voting_history_file
                          ELSE [voting_history_file EXCEPT
                                   ![idx] = save_vote_file(history)]
                   /\ local' = [cardinal |-> idx, kind |-> kind,
                                voted_for_raw |-> o.text,
                                voted_for |-> voted_for]
                   /\ answers' = NextAnswers(answers, kind, voted_for)
                   /\ idx' = IF o.raised THEN idx ELSE idx + 1
                   /\ pc' = IF o.raised THEN "aborted"
                            ELSE IF idx = Len(cardinals) THEN "tally"
                            ELSE "vote"
    /\ UNCHANGED <<round_number, pope_elected, winner, frontrunners,
                   round_results, max_rounds, returned, calls, fr_votes,
                   caller, files_and_tests>>

(***************************************************************************)
(* run_voting_round: one turn of the loop over the roster.                 *)
(***************************************************************************)
CastVote ==
    /\ pc = "vote"
    /\ \E o \in OracleOutcomes :
         LET resolved == IF o.raised THEN None
                         ELSE MatchingCardinal[o.text]
             kind == IF o.raised THEN "error"
                     ELSE IF resolved \in Range(eligible_cardinals) THEN "valid"
                     ELSE "invalid"
             choices == CASE kind = "valid" -> {resolved}
                          [] kind = "invalid" -> InvalidFallback(idx)
                          [] kind = "error" -> ErrorFallback(idx)
         IN  \E voted_for \in choices :
               LET history == save_vote(voting_history[idx], round_number,
                                        voted_for)
               IN  /\ votes' = TallyAdd(votes, voted_for)
                   /\ voting_history' =
                          [voting_history EXCEPT ![idx] = history]
                   /\ voting_history_file' =
                          [voting_history_file EXCEPT
                              ![idx] = save_vote_file(history)]
                   /\ local' = [cardinal |-> idx, kind |-> kind,
                                voted_for_raw |-> o.text,
                                voted_for |-> voted_for]
                   /\ answers' = NextAnswers(answers, kind, voted_for)
    /\ idx' = idx + 1
    /\ pc' = IF idx = Len(cardinals) THEN "tally" ELSE "vote"
    /\ UNCHANGED <<round_number, pope_elected, winner, frontrunners,
                   round_results, max_rounds, returned, calls, fr_votes,
                   caller, files_and_tests>>

(***************************************************************************)
(* run_voting_round: after the loop. The winner scan, the ledger write and *)
(* the frontrunner update, then the return to run_simulation.              *)
(***************************************************************************)
\* required_votes with the bug of a forgotten + 1
required_votes_NoPlusOne == (Len(cardinals) * 2) \div 3

required_votes == (Len(cardinals) * 2) \div 3 + 1

\* ScanWinner with the bug of a count that must exceed required_votes
ScanWinner_StrictlyAbove(v) ==
    LET reached == {k \in DOMAIN v : v[k].count > required_votes}
    IN  IF reached = {} THEN None
        ELSE v[CHOOSE k \in reached : \A j \in reached : k <= j].name

\* the scan of votes.items(): the first entry that reaches required_votes
ScanWinner(v) ==
    LET reached == {k \in DOMAIN v : v[k].count >= required_votes}
    IN  IF reached = {} THEN None
        ELSE v[CHOOSE k \in reached : \A j \in reached : k <= j].name

CloseRound ==
    /\ pc = "tally"
    /\ LET w == ScanWinner(votes)
           round_result == [round_number |-> round_number, votes |-> votes,
                            winner |-> w]
       IN  /\ pope_elected' = (pope_elected \/ w # None)
           /\ winner' = IF w # None THEN w ELSE winner
           /\ round_results' = save_round_result(round_results, round_result)
    /\ frontrunners' = _update_frontrunners(votes)
    /\ fr_votes' = votes
    /\ local' = NoLocal
    /\ pc' = IF caller = "run_simulation" THEN "run_simulation" ELSE "done"
    /\ UNCHANGED <<round_number, voting_history, voting_history_file, votes,
                   idx, max_rounds, returned, calls, caller, answers,
                   files_and_tests>>

\* Return with the bug of returning None whatever the winner
Return_AlwaysNone ==
    /\ pc = "run_simulation"
    /\ ~(~pope_elected /\ round_number < max_rounds)
    /\ returned' = None
    /\ pc' = "done"
    /\ UNCHANGED <<round_number, pope_elected, winner, frontrunners,
                   round_results, voting_history, voting_history_file, votes,
                   idx, local, max_rounds, calls, fr_votes, caller, answers,
                   files_and_tests>>

(***************************************************************************)
(* run_simulation: the loop test is false, self.winner is returned.        *)
(***************************************************************************)
Return ==
    /\ pc = "run_simulation"
    /\ ~(~pope_elected /\ round_number < max_rounds)
    /\ returned' = winner
    /\ pc' = "done"
    /\ UNCHANGED <<round_number, pope_elected, winner, frontrunners,
                   round_results, voting_history, voting_history_file, votes,
                   idx, local, max_rounds, calls, fr_votes, caller, answers,
                   files_and_tests>>

Next == StartRound \/ CastVote \/ CloseRound \/ Return

Spec == Init /\ [][Next]_vars

\* the coordinator is one thread of control that runs to completion, and
\* every oracle call returns or raises
LiveSpec == Spec /\ WF_vars(Next)

(***************************************************************************)
(* SpecUnit: the program driven as a unit test drives it. Before           *)
(* run_simulation(1), _update_frontrunners is called once on a tally the   *)
(* test supplies, so that a cardinal without history votes while           *)
(* self.frontrunners is not empty.                                         *)
(***************************************************************************)
\* the counts of the supplied tallies
TallyCounts == {1, 3}

\* the ordered tallies over names, each name at most once
RECURSIVE OrderedTallies(_)
OrderedTallies(names) ==
    {<<>>} \cup
    UNION {{<<[name |-> n, count |-> c]>> \o t :
               c \in TallyCounts, t \in OrderedTallies(names \ {n})} :
           n \in names}

CallUpdateFrontrunners ==
    /\ pc = "run_simulation"
    /\ calls = 0 /\ max_rounds = 1 /\ fr_votes = <<>>
    /\ \E t \in OrderedTallies(Range(cardinals)) \ {<<>>} :
         /\ frontrunners' = _update_frontrunners(t)
         /\ fr_votes' = t
    /\ UNCHANGED <<round_number, pope_elected, winner, round_results,
                   voting_history, voting_history_file, votes, idx, local,
                   max_rounds, returned, calls, caller, answers,
                   files_and_tests, pc>>

NextUnit == Next \/ CallUpdateFrontrunners

SpecUnit == Init /\ [][NextUnit]_vars

(***************************************************************************)
(* SpecAPI: the coordinator driven through its two public operations in    *)
(* any order. Once run_simulation has returned, the client may call        *)
(* run_voting_round itself or call run_simulation again.                   *)
(***************************************************************************)
\* run_voting_round called by the client: no test of pope_elected precedes
\* the increment of round_number (the model stops at MaxRounds rounds)
CallRunVotingRound ==
    /\ pc = "done"
    /\ round_number < MaxRounds
    /\ caller' = "client"
    /\ round_number' = round_number + 1
    /\ calls' = calls + 1
    /\ votes' = <<>>
    /\ idx' = 1
    /\ local' = NoLocal
    /\ answers' = NoAnswers
    /\ pc' = IF Len(cardinals) = 0 THEN "tally" ELSE "vote"
    /\ UNCHANGED <<pope_elected, winner, frontrunners, round_results,
                   voting_history, voting_history_file, max_rounds, returned,
                   fr_votes, files_and_tests>>

\* run_simulation(max_rounds) called again by the client
CallRunSimulation ==
    /\ pc = "done"
    /\ max_rounds' \in 0..MaxRounds
    /\ caller' = "run_simulation"
    /\ pc' = "run_simulation"
    /\ UNCHANGED <<round_number, pope_elected, winner, frontrunners,
                   round_results, voting_history, voting_history_file, votes,
                   idx, local, returned, calls, fr_votes, answers,
                   files_and_tests>>

NextAPI == Next \/ CallRunVotingRound \/ CallRunSimulation

SpecAPI == Init /\ [][NextAPI]_vars

(***************************************************************************)
(* Start-up. The program is started over a data directory: Conclave's      *)
(* constructor loads every cardinal's bio and history, and run_simulation  *)
(* is called once with the same max_rounds each time.                      *)
(***************************************************************************)
\* how many times the program is started over the same data directory
MaxProcesses == 2

\* Construct with the bug of a bio that is not read at start-up
Construct_SkipsBio ==
    /\ pc = "new"
    /\ voting_history' =
           [i \in Agents |-> _load_voting_history(voting_history_file[i])]
    /\ loaded' =
           [i \in Agents |-> _load_voting_history(voting_history_file[i])]
    /\ round_number' = 0
    /\ pope_elected' = FALSE
    /\ winner' = None
    /\ frontrunners' = <<>>
    /\ returned' = None
    /\ calls' = 0
    /\ votes' = <<>>
    /\ idx' = 0
    /\ local' = NoLocal
    /\ fr_votes' = <<>>
    /\ answers' = NoAnswers
    /\ caller' = "run_simulation"
    /\ pc' = "run_simulation"
    /\ UNCHANGED <<round_results, voting_history_file, max_rounds, process,
                   bio_file, latest, resolve_call,
                   order_call, scan_call>>

\* Conclave.__init__: _load_cardinals builds every Cardinal, whose
\* model_post_init reads the bio (open() raises when the file is missing)
\* and then the history; the counters start over; RoundResults keeps the
\* results directory as it is
Construct ==
    /\ pc = "new"
    /\ IF \E i \in Agents : ~bio_file[i]
       THEN /\ pc' = "load_failed"
            /\ UNCHANGED <<round_number, pope_elected, winner, frontrunners,
                           voting_history, loaded, returned, calls, votes,
                           idx, local, fr_votes, answers, caller>>
       ELSE /\ voting_history' =
                   [i \in Agents |->
                       _load_voting_history(voting_history_file[i])]
            /\ loaded' =
                   [i \in Agents |->
                       _load_voting_history(voting_history_file[i])]
            /\ round_number' = 0
            /\ pope_elected' = FALSE
            /\ winner' = None
            /\ frontrunners' = <<>>
            /\ returned' = None
            /\ calls' = 0
            /\ votes' = <<>>
            /\ idx' = 0
            /\ local' = NoLocal
            /\ fr_votes' = <<>>
            /\ answers' = NoAnswers
            /\ caller' = "run_simulation"
            /\ pc' = "run_simulation"
    /\ UNCHANGED <<round_results, voting_history_file, max_rounds, process,
                   bio_file, latest, resolve_call,
                   order_call, scan_call>>

\* the program has ended and is started again over the same data directory
Relaunch ==
    /\ pc = "done" /\ process < MaxProcesses
    /\ process' = process + 1
    /\ pc' = "new"
    /\ UNCHANGED <<round_number, pope_elected, winner, frontrunners,
                   round_results, voting_history, voting_history_file, votes,
                   idx, local, max_rounds, returned, calls, fr_votes, caller,
                   answers, loaded, bio_file, latest, resolve_call,
                   order_call, scan_call>>

NextRerun == Next \/ Relaunch \/ Construct

\* SpecRerun: the program run MaxProcesses times over one data directory
\* that was fresh at first
SpecRerun == Init /\ [][NextRerun]_vars

\* the values of max_rounds of the start-up test
LoadMaxRounds == {0, 1, 2}

\* a history file with the given records
HistoryFile(records) == [exists |-> TRUE, records |-> records]

\* the history files a start-up may find: none at all; the files of a
\* cleared directory; the files left by a one-round simulation over this
\* roster; a directory with a missing, an empty and a written file; and
\* files left by a simulation over a roster that had one more cardinal
LeftoverHistoryFiles ==
    { [i \in Agents |-> NoFile],
      [i \in Agents |-> HistoryFile(<<>>)],
      [i \in Agents |->
          HistoryFile(<<[round |-> 1,
                         voted_for |-> cardinals[IF i = 1 THEN 2 ELSE 1]]>>)],
      [i \in Agents |->
          IF i = 1 THEN NoFile
          ELSE IF i = 2 THEN HistoryFile(<<>>)
          ELSE HistoryFile(<<[round |-> 1, voted_for |-> cardinals[1]]>>)],
      [i \in Agents |->
          HistoryFile(<<[round |-> 1,
                         voted_for |-> AllNames[NumCardinals + 1]]>>)] }

\* the bio files a start-up may find: all of them, or all but one
BioFiles ==
    {[i \in Agents |-> TRUE]}
        \cup {[i \in Agents |-> i # j] : j \in Agents}

\* the program about to be started over a data directory
InitLoad ==
    /\ round_number = 0
    /\ pope_elected = FALSE
    /\ winner = None
    /\ frontrunners = <<>>
    /\ round_results = <<>>
    /\ voting_history_file \in LeftoverHistoryFiles
    /\ voting_history = [i \in Agents |-> <<>>]
    /\ votes = <<>>
    /\ idx = 0
    /\ local = NoLocal
    /\ max_rounds \in LoadMaxRounds
    /\ returned = None
    /\ calls = 0
    /\ fr_votes = <<>>
    /\ caller = "run_simulation"
    /\ answers = NoAnswers
    /\ loaded = [i \in Agents |-> <<>>]
    /\ process = 1
    /\ bio_file \in BioFiles
    /\ latest = NoLatest
    /\ resolve_call = NoResolveCall
    /\ order_call = NoOrderCall
    /\ scan_call = NoScanCall
    /\ pc = "new"

NextLoad == Construct \/ Next

\* SpecLoad: one start-up over a data directory as it may be found
SpecLoad == InitLoad /\ [][NextLoad]_vars

(***************************************************************************)
(* SpecPersist: a simulation in which save_vote may raise after its append *)
(* (open() or json.dump failing, cardinal.py 47-52).                       *)
(***************************************************************************)
\* one turn of the loop in which save_vote raises. When it is the call of
\* the try block (230, 245) the vote is already counted and the record
\* already appended; the except branch (247-257) takes the cardinal's last
\* record, counts it and calls save_vote again, which writes the file or
\* raises again. An exception raised inside the except branch leaves
\* run_voting_round and run_simulation.
CastVoteSaveFails ==
    /\ pc = "vote"
    /\ \E o \in OracleOutcomes : \E again \in BOOLEAN :
         LET resolved == IF o.raised THEN None
                         ELSE MatchingCardinal[o.text]
             kind == IF o.raised THEN "error"
                     ELSE IF resolved \in Range(eligible_cardinals) THEN "valid"
                     ELSE "invalid"
             choices == CASE kind = "valid" -> {resolved}
                          [] kind = "invalid" -> InvalidFallback(idx)
                          [] kind = "error" -> ErrorFallback(idx)
         IN  \E voted_for \in choices :
               LET first == save_vote(voting_history[idx], round_number,
                                      voted_for)
                   fallback == Last(first).voted_for
                   second == save_vote(first, round_number, fallback)
                   propagates == o.raised \/ again
               IN  /\ o.raised => again
                   /\ votes' = IF o.raised THEN TallyAdd(votes, voted_for)
                                ELSE TallyAdd(TallyAdd(votes, voted_for),
                                              fallback)
                   /\ voting_history' =
                          [voting_history EXCEPT
                              ![idx] = IF o.raised THEN first ELSE second]
                   /\ voting_history_file' =
                          IF propagates THEN voting_history_file
                          ELSE [voting_history_file EXCEPT
                                   ![idx] = save_vote_file(second)]
                   /\ local' = [cardinal |-> idx, kind |-> "save_error",
                                voted_for_raw |-> o.text,
                                voted_for |-> voted_for]
                   /\ answers' = NextAnswers(answers, "save_error", voted_for)
                   /\ idx' = IF propagates THEN idx ELSE idx + 1
                   /\ pc' = IF propagates THEN "aborted"
                            ELSE IF idx = Len(cardinals) THEN "tally"
                            ELSE "vote"
    /\ UNCHANGED <<round_number, pope_elected, winner, frontrunners,
                   round_results, max_rounds, returned, calls, fr_votes,
                   caller, files_and_tests>>

NextPersist == Next \/ CastVoteSaveFails

SpecPersist == Init /\ [][NextPersist]_vars

(***************************************************************************)
(* SpecLedger: a test of the ledger. Between the rounds of a simulation of *)
(* at most one round the test saves outcomes of its own under round        *)
(* numbers of its choice, and it ends with one call of                     *)
(* get_latest_round_result.                                                *)
(***************************************************************************)
\* the round numbers the test saves under
SavedRounds == {1, 3, 10}

InitLedger == Init /\ max_rounds <= 1

\* save_round_result(RoundResult(round_number=r, votes={}, winner=None))
CallSaveRoundResult ==
    /\ pc \in {"run_simulation", "done"}
    /\ \E r \in SavedRounds :
         round_results' =
             save_round_result(round_results,
                 [round_number |-> r, votes |-> <<>>, winner |-> None])
    /\ UNCHANGED <<round_number, pope_elected, winner, frontrunners,
                   voting_history, voting_history_file, votes, idx, local,
                   max_rounds, returned, calls, fr_votes, caller, answers,
                   loaded, process, bio_file, latest, resolve_call,
                   order_call, scan_call, pc>>

\* get_latest_round_result(), the last step of the test
CallGetLatestRoundResult ==
    /\ pc \in {"run_simulation", "done"}
    /\ latest' = [called |-> TRUE, ledger |-> round_results,
                  result |-> get_latest_round_result(round_results)]
    /\ pc' = "tested"
    /\ UNCHANGED <<round_number, pope_elected, winner, frontrunners,
                   round_results, voting_history, voting_history_file, votes,
                   idx, local, max_rounds, returned, calls, fr_votes, caller,
                   answers, loaded, process, bio_file, resolve_call,
                   order_call, scan_call>>

NextLedger == Next \/ CallSaveRoundResult \/ CallGetLatestRoundResult

SpecLedger == InitLedger /\ [][NextLedger]_vars

(***************************************************************************)
(* SpecResolve: a test of the name resolver. It builds a coordinator over  *)
(* one of a few rosters and resolves one text: a spelling of one of the    *)
(* roster's names, or a text that names nobody.                            *)
(***************************************************************************)
\* the rosters of the test: the roster of the simulation, and rosters in
\* which two names differ by a diacritic, by case and by whitespace only
Rosters ==
    { cardinals,
      << <<"C", "e">>, <<"C", "é">>, <<"A", "b">> >>,
      << <<"A", "b">>, <<"D", " ", "f">>, <<"A", "B">> >>,
      << <<"D", " ", "f">>, <<"D", " ", " ", "f">>, <<"D", "f">> >> }

UpperChar(c) ==
    CASE c = "a" -> "A"
      [] c = "b" -> "B"
      [] c = "e" -> "E"
      [] c = "é" -> "É"
      [] c = "f" -> "F"
      [] OTHER -> c

\* spellings of a name in another case
ToUpper(s) == [i \in DOMAIN s |-> UpperChar(s[i])]

ToLower(s) == [i \in DOMAIN s |-> LowerChar(s[i])]

\* spellings of a name with a diacritic removed, or added as a precomposed
\* letter or as a combining mark after the first letter
Unaccent(s) ==
    [i \in DOMAIN s |-> CASE s[i] = "é" -> "e"
                          [] s[i] = "É" -> "E"
                          [] OTHER -> s[i]]

Accent(s) ==
    [i \in DOMAIN s |-> CASE s[i] = "e" -> "é"
                          [] s[i] = "E" -> "É"
                          [] OTHER -> s[i]]

AddMark(s) == <<s[1], Acute>> \o Tail(s)

\* spellings of a name with every space doubled, and with leading and
\* trailing whitespace
RECURSIVE DoubleSpaces(_)
DoubleSpaces(s) ==
    IF s = <<>> THEN <<>>
    ELSE (IF Head(s) = " " THEN <<" ", " ">> ELSE <<Head(s)>>)
         \o DoubleSpaces(Tail(s))

Lead(s) == <<" ">> \o s

Trail(s) == s \o <<" ", Nbsp>>

\* the spellings of a name that differ from it by diacritics, case and
\* repeated, leading or trailing whitespace only: up to three changes
OneChange(s) ==
    {s, ToUpper(s), ToLower(s), Unaccent(s), Accent(s), AddMark(s),
     DoubleSpaces(s), Lead(s), Trail(s)}

Variants(name) ==
    UNION {OneChange(w) : w \in UNION {OneChange(v) : v \in OneChange(name)}}

\* texts that are no spelling of any name of any roster
NoNames == { <<"x">>, <<"A", "b", "b">>, <<"A", " ", "b">>, <<>> }

\* _find_matching_cardinal called with a spelling of the roster's i-th name
CallFindMatchingCardinal ==
    /\ pc = "run_simulation" /\ calls = 0 /\ resolve_call = NoResolveCall
    /\ \E roster \in Rosters : \E i \in DOMAIN roster :
         \E text \in Variants(roster[i]) :
            resolve_call' =
                [roster |-> roster, name |-> roster[i], text |-> text,
                 out |-> find_matching_cardinal_in(roster, text)]
    /\ UNCHANGED <<round_number, pope_elected, winner, frontrunners,
                   round_results, voting_history, voting_history_file, votes,
                   idx, local, max_rounds, returned, calls, fr_votes, caller,
                   answers, loaded, process, bio_file, latest, order_call,
                   scan_call, pc>>

\* _find_matching_cardinal called with a text that names nobody
CallFindMatchingCardinalNoName ==
    /\ pc = "run_simulation" /\ calls = 0 /\ resolve_call = NoResolveCall
    /\ \E roster \in Rosters : \E text \in NoNames :
            resolve_call' =
                [roster |-> roster, name |-> None, text |-> text,
                 out |-> find_matching_cardinal_in(roster, text)]
    /\ UNCHANGED <<round_number, pope_elected, winner, frontrunners,
                   round_results, voting_history, voting_history_file, votes,
                   idx, local, max_rounds, returned, calls, fr_votes, caller,
                   answers, loaded, process, bio_file, latest, order_call,
                   scan_call, pc>>

NextResolve == CallFindMatchingCardinal \/ CallFindMatchingCardinalNoName

SpecResolve == Init /\ [][NextResolve]_vars

(***************************************************************************)
(* SpecOrder: a test of one round of a coordinator built over one of the   *)
(* rosters of SpecResolve, computed twice from the same inputs: over the   *)
(* roster as given and over the roster in another order.                   *)
(***************************************************************************)
\* required_votes with the bug of a threshold of half the roster
required_votes_in_Half(n) == n \div 2

\* required_votes = (len(self.cardinals) * 2 // 3) + 1 for a roster of n
required_votes_in(n) == (n * 2) \div 3 + 1

\* the winner scan with the bug of reporting the first entry of the tally
ScanWinnerIn_FirstEntry(n, v) ==
    IF v = <<>> THEN None ELSE v[1].name

\* the winner scan of a coordinator whose roster has n entries
ScanWinnerIn(n, v) ==
    LET reached == {k \in DOMAIN v : v[k].count >= required_votes_in(n)}
    IN  IF reached = {} THEN None
        ELSE v[CHOOSE k \in reached : \A j \in reached : k <= j].name

\* the vote one turn of the loop records. in is what the turn meets: the
\* oracle's outcome, the cardinal's last recorded vote (None for an empty
\* history) and the name random.choice would return
TurnVote(roster, fr, in) ==
    IF in.raised
    THEN (IF in.prior # None THEN in.prior ELSE in.pick)
    ELSE LET voted_for == find_matching_cardinal_in(roster, in.text)
         IN  IF voted_for \in Range(roster) THEN voted_for
             ELSE IF in.prior # None THEN in.prior
             ELSE IF fr # <<>> THEN MaxFrontrunner(fr)
             ELSE in.pick

\* the loop over self.cardinals from position k on: order[k] is the
\* cardinal at position k, inputs[a] is what cardinal a meets
RECURSIVE RoundVotes(_, _, _, _, _, _)
RoundVotes(roster, order, inputs, fr, k, tally) ==
    IF k > Len(order) THEN tally
    ELSE RoundVotes(roster, order, inputs, fr, k + 1,
                    TallyAdd(tally, TurnVote(roster, fr, inputs[order[k]])))

\* one round of a coordinator whose self.cardinals is the roster in the
\* given order: the tally and the winner
RoundInOrder(roster, order, inputs, fr) ==
    LET permuted == [k \in DOMAIN order |-> roster[order[k]]]
        tally == RoundVotes(permuted, order, inputs, fr, 1, <<>>)
    IN  [votes |-> tally, winner |-> ScanWinnerIn(Len(roster), tally)]

\* the orders a roster of n entries can be listed in
RosterOrders(n) ==
    {p \in [1..n -> 1..n] : \A i, j \in 1..n : p[i] = p[j] => i = j}

\* what the oracle may do in the test: raise, or return the first roster
\* name, the second one in capitals, or a text that names nobody
OrderOutcomes(roster) ==
    {[raised |-> TRUE, text |-> None]}
        \cup {[raised |-> FALSE, text |-> t] :
                 t \in {roster[1], ToUpper(roster[2]), <<"x">>}}

\* the histories of the test: all empty, or each cardinal's last vote is
\* for the next roster entry
OrderPriors(roster) ==
    { [a \in DOMAIN roster |-> None],
      [a \in DOMAIN roster |-> roster[(a % Len(roster)) + 1]] }

\* the random picks of the test: each cardinal itself, or all the first
OrderPicks(roster) ==
    { [a \in DOMAIN roster |-> roster[a]],
      [a \in DOMAIN roster |-> roster[1]] }

\* the frontrunners of the test: none, or the last roster entry
OrderFrontrunners(roster) ==
    { <<>>,
      <<[name |-> roster[Len(roster)], ratio |-> <<1, Len(roster)>>]>> }

OrderInputs(roster) ==
    {[a \in DOMAIN roster |->
         [raised |-> o[a].raised, text |-> o[a].text, prior |-> h[a],
          pick |-> p[a]]] :
        o \in [DOMAIN roster -> OrderOutcomes(roster)],
        h \in OrderPriors(roster), p \in OrderPicks(roster)}

\* the round computed over the roster as given and in another order
CallRoundInOrder ==
    /\ pc = "run_simulation" /\ calls = 0 /\ max_rounds = 0
    /\ order_call = NoOrderCall
    /\ \E roster \in Rosters : \E order \in RosterOrders(Len(roster)) :
         \E inputs \in OrderInputs(roster) :
            \E fr \in OrderFrontrunners(roster) :
               order_call' =
                   [roster |-> roster, order |-> order, inputs |-> inputs,
                    frontrunners |-> fr,
                    in_roster_order |->
                        RoundInOrder(roster, [k \in DOMAIN roster |-> k],
                                     inputs, fr),
                    in_order |-> RoundInOrder(roster, order, inputs, fr)]
    /\ UNCHANGED <<round_number, pope_elected, winner, frontrunners,
                   round_results, voting_history, voting_history_file, votes,
                   idx, local, max_rounds, returned, calls, fr_votes, caller,
                   answers, loaded, process, bio_file, latest, resolve_call,
                   scan_call, pc>>

NextOrder == CallRoundInOrder

SpecOrder == Init /\ [][NextOrder]_vars

(***************************************************************************)
(* SpecScan: a test of the winner scan over every tally of every roster    *)
(* size up to MaxRosterSize: every way of giving each of the n cardinals'  *)
(* votes to one candidate, in every order of the candidates.               *)
(***************************************************************************)
MaxRosterSize == 7

\* the sequences of positive counts that sum to n
RECURSIVE CountsSummingTo(_)
CountsSummingTo(n) ==
    IF n = 0 THEN {<<>>}
    ELSE UNION {{<<c>> \o r : r \in CountsSummingTo(n - c)} : c \in 1..n}

\* the tally with the given counts, for candidates named by their place
TallyOfCounts(counts) ==
    [k \in DOMAIN counts |-> [name |-> <<k>>, count |-> counts[k]]]

\* the winner scan of lines 259-266 over a tally of a roster of n
CallScanWinner ==
    /\ pc = "run_simulation" /\ calls = 0 /\ max_rounds = 0
    /\ scan_call = NoScanCall
    /\ \E n \in 1..MaxRosterSize : \E counts \in CountsSummingTo(n) :
         scan_call' =
             [total |-> n, votes |-> TallyOfCounts(counts),
              winner |-> ScanWinnerIn(n, TallyOfCounts(counts))]
    /\ UNCHANGED <<round_number, pope_elected, winner, frontrunners,
                   round_results, voting_history, voting_history_file, votes,
                   idx, local, max_rounds, returned, calls, fr_votes, caller,
                   answers, loaded, process, bio_file, latest, resolve_call,
                   order_call, pc>>

NextScan == CallScanWinner

SpecScan == Init /\ [][NextScan]_vars

(***************************************************************************)
(* Properties.                                                             *)
(***************************************************************************)
\* floor(rosterSize * 2 / 3) + 1
Supermajority == (Len(cardinals) * 2) \div 3 + 1

InRound == pc \in {"vote", "tally"}

\* the roster entries whose history holds the record (round r, voted for c)
VotersFor(r, c) ==
    {i \in Agents :
        \E k \in DOMAIN voting_history[i] :
            voting_history[i][k] = [round |-> r, voted_for |-> c]}

\* C1: in every round outcome the counts of the tally sum to the roster
\* size, and the count of each candidate is the number of cardinals whose
\* vote of that round was recorded for that candidate: every vote, real or
\* fallback, is counted exactly once.
C1_TallyCountsEveryVoteOnce ==
    /\ \A r \in DOMAIN round_results :
         LET t == round_results[r].votes
         IN  /\ SumCounts(t) = Len(cardinals)
             /\ Cardinality(TallyKeys(t)) = Len(t)
             /\ \A c \in TallyKeys(t) \cup Range(cardinals) :
                    TallyGet(t, c) = Cardinality(VotersFor(r, c))
    /\ pc = "tally" => SumCounts(votes) = Len(cardinals)

\* a round about to be saved whose last cardinal met an oracle error and in
\* which another cardinal voted, by fallback, for a name no response names
C1_Witness ==
    /\ pc = "tally" /\ round_number = 1
    /\ local.kind = "error"
    /\ local.voted_for # cardinals[3]
    /\ TallyGet(votes, cardinals[3]) >= 1
    /\ SumCounts(votes) = Len(cardinals)

\* C2: in every saved round outcome the winner is present exactly when some
\* candidate's count reaches floor(rosterSize * 2 / 3) + 1, and a winner
\* that is present has itself such a count.
C2_WinnerIffSupermajority ==
    \A r \in DOMAIN round_results :
        LET o == round_results[r]
            reached == {c \in TallyKeys(o.votes) :
                           TallyGet(o.votes, c) >= Supermajority}
        IN  /\ o.winner # None <=> reached # {}
            /\ o.winner # None => o.winner \in reached

\* round 1 saved without a winner although a candidate is one vote short,
\* round 2 saved with a winner
C2_Witness ==
    /\ DOMAIN round_results = {1, 2}
    /\ round_results[1].winner = None
    /\ \E c \in Range(cardinals) :
           TallyGet(round_results[1].votes, c) = Supermajority - 1
    /\ round_results[2].winner # None

\* C3: after N calls of run_voting_round on a new coordinator the ledger
\* holds the outcomes of exactly the rounds 1..N, each under its own number,
\* and round_number is N (while the N-th call is still voting, the ledger
\* holds the rounds 1..N-1).
C3_RoundsAreOneToN ==
    LET completed == IF InRound THEN calls - 1 ELSE calls
    IN  /\ round_number = calls
        /\ DOMAIN round_results = 1..completed
        /\ \A r \in DOMAIN round_results :
               round_results[r].round_number = r

C3_Witness ==
    /\ pc = "done" /\ calls = 2
    /\ DOMAIN round_results = {1, 2}
    /\ round_results[2].round_number = 2

\* C4: run_simulation(max_rounds) terminates, and when it has returned:
\* it ran at most max_rounds rounds (round_number, which only grows, is at
\* most max_rounds), no round was run after a round that found a winner,
\* and either a winner is elected or round_number = max_rounds and there is
\* no winner.
C4_SimulationTerminates ==
    <>( /\ pc = "done"
        /\ calls <= max_rounds /\ round_number <= max_rounds
        /\ \A r \in DOMAIN round_results :
               r < round_number => round_results[r].winner = None
        /\ \/ pope_elected /\ winner # None
           \/ ~pope_elected /\ winner = None /\ round_number = max_rounds )

\* returned with a winner before the round budget was used up
C4_Witness ==
    /\ pc = "done" /\ pope_elected
    /\ round_number = 1 /\ max_rounds = 2

\* C5: run_simulation returns a name exactly when the last round it ran
\* saved an outcome with that name as winner, and returns None exactly
\* when round_number = max_rounds and no saved outcome has a winner.
C5_ReturnValue ==
    pc = "done" =>
        LET lastWinner == IF round_number \in DOMAIN round_results
                          THEN round_results[round_number].winner
                          ELSE None
        IN  /\ returned # None <=> lastWinner # None
            /\ returned # None => returned = lastWinner
            /\ returned = None <=>
                   /\ round_number = max_rounds
                   /\ \A r \in DOMAIN round_results :
                          round_results[r].winner = None

\* a name returned from the last round of the budget
C5_Witness ==
    /\ pc = "done" /\ returned # None
    /\ round_number = 2 /\ max_rounds = 2
    /\ round_results[1].winner = None

\* C6: when the fallback policy applies (oracle error or invalid response)
\* to a cardinal whose history is not empty, the vote recorded for this
\* round is the voted_for of the cardinal's previous record.
C6_FallbackReusesPriorVote ==
    (InRound /\ local.kind \in {"invalid", "error"}
        /\ Len(voting_history[local.cardinal]) >= 2) =>
        LET h == voting_history[local.cardinal]
        IN  /\ h[Len(h)].round = round_number
            /\ h[Len(h)].voted_for = h[Len(h) - 1].voted_for
            /\ local.voted_for = h[Len(h) - 1].voted_for
            /\ TallyGet(votes, local.voted_for) >= 1

\* an invalid response of a cardinal with history, recorded as the
\* cardinal's previous vote although another name leads the frontrunners
C6_Witness ==
    /\ InRound /\ local.kind = "invalid"
    /\ Len(voting_history[local.cardinal]) = 2
    /\ frontrunners # <<>>
    /\ \E k \in DOMAIN frontrunners :
           /\ frontrunners[k].name # local.voted_for
           /\ \A j \in DOMAIN frontrunners :
                  frontrunners[j].name = local.voted_for =>
                      frontrunners[j].ratio[1] < frontrunners[k].ratio[1]

\* C7: on an oracle error of a cardinal with empty history the recorded
\* vote is a roster member and every roster member can be the recorded
\* vote, whether or not self.frontrunners is empty.
C7_ErrorPathIgnoresFrontrunners ==
    /\ (InRound /\ local.kind = "error"
          /\ Len(voting_history[local.cardinal]) = 1) =>
           /\ local.voted_for \in Range(cardinals)
           /\ Last(voting_history[local.cardinal]).voted_for = local.voted_for
    /\ (pc = "vote" /\ voting_history[idx] = <<>>) =>
           \A m \in Range(cardinals) :
               ENABLED (CastVote /\ local'.kind = "error"
                          /\ local'.voted_for = m)

\* an oracle error of a cardinal without history, recorded as a vote for a
\* name that is not a frontrunner although there are frontrunners
C7_Witness ==
    /\ InRound /\ local.kind = "error"
    /\ Len(voting_history[local.cardinal]) = 1
    /\ frontrunners # <<>>
    /\ local.voted_for \notin {frontrunners[k].name : k \in DOMAIN frontrunners}

\* C8: on an invalid response of a cardinal with empty history while
\* self.frontrunners is not empty, the recorded vote is the frontrunner of
\* the highest ratio and, among those of the highest ratio, the one that
\* comes first in the tally the frontrunners were computed from.
C8_FrontrunnerFallback ==
    (InRound /\ local.kind = "invalid"
        /\ Len(voting_history[local.cardinal]) = 1 /\ frontrunners # <<>>) =>
        /\ \E k \in DOMAIN frontrunners :
             /\ frontrunners[k].name = local.voted_for
             /\ \A j \in DOMAIN frontrunners :
                    frontrunners[j].ratio[1] * frontrunners[k].ratio[2]
                        <= frontrunners[k].ratio[1] * frontrunners[j].ratio[2]
        /\ \E k \in DOMAIN fr_votes :
             /\ fr_votes[k].name = local.voted_for
             /\ \A j \in DOMAIN fr_votes :
                    fr_votes[j].count <= fr_votes[k].count
             /\ \A j \in DOMAIN fr_votes :
                    j < k => fr_votes[j].count < fr_votes[k].count

\* two frontrunners tied for the highest ratio, behind a candidate that is
\* no frontrunner: the vote goes to the first of the two
C8_Witness ==
    /\ InRound /\ local.kind = "invalid"
    /\ Len(voting_history[local.cardinal]) = 1
    /\ Len(frontrunners) = 2 /\ Len(fr_votes) = 3
    /\ frontrunners[1].ratio = frontrunners[2].ratio
    /\ fr_votes[1].count < fr_votes[2].count
    /\ local.voted_for = fr_votes[2].name

\* C9: on an invalid response of a cardinal with empty history while there
\* are no frontrunners, the recorded vote is a roster member, every roster
\* member can be the recorded vote, and the tally still counts one vote per
\* cardinal that has voted.
C9_RandomFallback ==
    /\ (InRound /\ local.kind = "invalid"
          /\ Len(voting_history[local.cardinal]) = 1 /\ frontrunners = <<>>) =>
           /\ local.voted_for \in Range(cardinals)
           /\ Last(voting_history[local.cardinal]).voted_for = local.voted_for
           /\ SumCounts(votes) = local.cardinal
           /\ pc = "tally" => SumCounts(votes) = Len(cardinals)
    /\ (pc = "vote" /\ voting_history[idx] = <<>> /\ frontrunners = <<>>) =>
           \A m \in Range(cardinals) :
               ENABLED (CastVote /\ local'.kind = "invalid"
                          /\ local'.voted_for = m)

\* the last cardinal of round 1 answers an invalid text and the vote
\* recorded is for a name that no oracle response names
C9_Witness ==
    /\ pc = "tally" /\ local.kind = "invalid"
    /\ Len(voting_history[local.cardinal]) = 1 /\ frontrunners = <<>>
    /\ local.voted_for = cardinals[3]
    /\ SumCounts(votes) = Len(cardinals)

\* the frontrunners are the candidates whose count in tally t, divided by
\* the roster size, is above 0.15, each mapped to that ratio
FrontrunnersOf(t) ==
    /\ {frontrunners[k].name : k \in DOMAIN frontrunners} =
           {c \in Range(cardinals) :
               TallyGet(t, c) * 100 > 15 * Len(cardinals)}
    /\ Cardinality({frontrunners[k].name : k \in DOMAIN frontrunners}) =
           Len(frontrunners)
    /\ \A k \in DOMAIN frontrunners :
           frontrunners[k].ratio =
               <<TallyGet(t, frontrunners[k].name), Len(cardinals)>>

\* C10: after every completed round the frontrunner set is exactly the set
\* of candidates above 15% of the roster size in that round's tally, mapped
\* to their ratio; during a round it is still the set of the previous round
\* (empty during round 1).
C10_FrontrunnersRebuiltEachRound ==
    /\ (~InRound /\ round_number >= 1) =>
           FrontrunnersOf(round_results[round_number].votes)
    /\ (InRound /\ round_number >= 2) =>
           FrontrunnersOf(round_results[round_number - 1].votes)
    /\ (InRound /\ round_number = 1) => frontrunners = <<>>

\* a candidate with votes in round 1 and none in round 2 is no frontrunner
\* after round 2
C10_Witness ==
    /\ ~InRound /\ round_number = 2
    /\ \E c \in Range(cardinals) :
         /\ TallyGet(round_results[1].votes, c) >= 1
         /\ TallyGet(round_results[2].votes, c) = 0
         /\ c \notin {frontrunners[k].name : k \in DOMAIN frontrunners}
    /\ frontrunners # <<>>

\* C11: when every cardinal's answer of a round resolves to the same roster
\* name c, the tally of the round is {c: rosterSize}, c is the winner of the
\* saved outcome, run_simulation starts no further round and returns c.
C11_UnanimousAnswerElects ==
    (answers.state = "same" /\ pc # "vote") =>
        LET c == answers.name
            tally == <<[name |-> c, count |-> Len(cardinals)]>>
        IN  /\ pc = "tally" => votes = tally
            /\ pc \in {"run_simulation", "done"} =>
                   /\ round_results[round_number] =
                          [round_number |-> round_number, votes |-> tally,
                           winner |-> c]
                   /\ pope_elected /\ winner = c
                   /\ ~ENABLED StartRound
            /\ pc = "done" => returned = c

\* the oracle answered the first roster name to every cardinal of round 1:
\* the simulation returned that name after one round of its budget of two
C11_Witness ==
    /\ pc = "done" /\ answers.state = "same"
    /\ answers.name = cardinals[1]
    /\ round_number = 1 /\ max_rounds = 2
    /\ returned = cardinals[1]

\* C12: under any sequence of run_voting_round and run_simulation calls,
\* pope_elected never goes back from true to false and the winner, once
\* set, never changes.
C12_ElectionStateMonotonic ==
    [][ /\ pope_elected => pope_elected'
        /\ winner # None => winner' = winner ]_vars

\* the records of round r in a history
RecordsOfRound(h, r) == {k \in DOMAIN h : h[k].round = r}

\* C13: an oracle error or an unresolvable response never aborts the
\* round. The failing cardinal has exactly one record for the round and the
\* loop moves on; from then on the round cannot stop short of its end:
\* while cardinals remain, the only step is the turn of the next cardinal in
\* roster order, which adds its one record, and after the last turn the only
\* step writes the round's outcome to the ledger.
C13_FailureNeverAbortsRound ==
    /\ [](local.kind \in {"invalid", "error"} =>
            /\ Cardinality(RecordsOfRound(voting_history[local.cardinal],
                                          round_number)) = 1
            /\ idx = local.cardinal + 1
            /\ pc = IF local.cardinal = Len(cardinals) THEN "tally"
                    ELSE "vote")
    /\ []( /\ pc \in {"vote", "tally", "run_simulation", "done"}
           /\ pc = "vote" => idx \in Agents /\ ENABLED CastVote
           /\ pc = "tally" => idx = Len(cardinals) + 1 /\ ENABLED CloseRound )
    /\ [][ /\ pc = "vote" =>
                /\ local'.cardinal = idx /\ idx' = idx + 1
                /\ pc' = IF idx = Len(cardinals) THEN "tally" ELSE "vote"
                /\ Cardinality(RecordsOfRound(voting_history'[idx],
                                              round_number)) = 1
                /\ round_number' = round_number
           /\ pc = "tally" =>
                /\ pc' \in {"run_simulation", "done"}
                /\ round_number' = round_number
                /\ round_number \in DOMAIN round_results'
                /\ round_results'[round_number].round_number = round_number
                /\ SumCounts(round_results'[round_number].votes) =
                       Len(cardinals)
                /\ \A i \in Agents :
                       Cardinality(RecordsOfRound(voting_history'[i],
                                                  round_number)) = 1 ]_vars

\* the first cardinal of a round met an oracle error, a vote is recorded
\* for it and the second cardinal is next
C13_Witness ==
    /\ pc = "vote" /\ local.kind = "error" /\ local.cardinal = 1
    /\ idx = 2 /\ round_number = 2
    /\ Len(voting_history[1]) = 2 /\ Len(voting_history[2]) = 1

\* C14: get_latest_round_result returns the outcome stored under the
\* greatest round number present in the ledger, whether or not the numbers
\* are contiguous (rounds 1 and 3 without 2 give round 3) and whatever the
\* coordinator's round_number is; on an empty ledger it returns None.
C14_LatestIsHighestRound ==
    latest.called =>
        /\ latest.ledger = round_results
        /\ DOMAIN round_results = {} => latest.result = {}
        /\ DOMAIN round_results # {} =>
               \E m \in DOMAIN round_results :
                   /\ \A r \in DOMAIN round_results : r <= m
                   /\ latest.result = {round_results[m]}
                   /\ round_results[m].round_number = m
        /\ DOMAIN round_results = {1, 3} =>
               \A x \in latest.result : x.round_number = 3

\* rounds 1 and 3 are in the ledger, round 2 is not, round 1 was written by
\* the coordinator, whose round_number is 1, and the call returned round 3
C14_Witness ==
    /\ latest.called /\ DOMAIN round_results = {1, 3}
    /\ round_number = 1 /\ round_results[1].votes # <<>>
    /\ latest.result = {round_results[3]}

\* the roster entries whose normalized form is that of the text
SameNormalized(roster, text) ==
    {j \in DOMAIN roster : _normalize_name(roster[j]) = _normalize_name(text)}

\* C15, as stated: resolving a roster name, or a spelling of it that differs
\* by diacritics, case or repeated, leading or trailing whitespace only,
\* returns exactly that roster name; the resolver returns the first roster
\* entry whose normalized form equals the normalized text, and None when
\* there is none.
C15_RoundTrip ==
    resolve_call.text # None =>
        /\ resolve_call.name # None => resolve_call.out = resolve_call.name
        /\ LET hits == SameNormalized(resolve_call.roster, resolve_call.text)
           IN  IF hits = {} THEN resolve_call.out = None
               ELSE \E i \in hits :
                       /\ \A j \in hits : i <= j
                       /\ resolve_call.out = resolve_call.roster[i]

\* C15, amended: the round trip holds for a roster name that no earlier
\* roster entry shares its normalized form with; for a name that an earlier
\* entry shares it with, every spelling resolves to the first such entry.
\* A text that is no spelling of any roster name resolves to None.
C15_RoundTripOfFirstEntries ==
    resolve_call.text # None =>
        LET roster == resolve_call.roster
            earlier(n) == {j \in DOMAIN roster :
                              /\ _normalize_name(roster[j]) = _normalize_name(n)
                              /\ \E k \in DOMAIN roster : j < k /\ roster[k] = n
                              /\ roster[j] # n}
        IN  /\ (resolve_call.name # None /\ earlier(resolve_call.name) = {})
                   => resolve_call.out = resolve_call.name
            /\ (resolve_call.name # None /\ earlier(resolve_call.name) # {})
                   => \E j \in earlier(resolve_call.name) :
                          /\ \A k \in earlier(resolve_call.name) : j <= k
                          /\ resolve_call.out = roster[j]
            /\ resolve_call.name = None => resolve_call.out = None

\* the second roster name, spelled in capitals without its diacritic and
\* followed by whitespace, resolves to itself
C15_Witness ==
    /\ resolve_call.roster = cardinals
    /\ resolve_call.name = <<"C", "é">>
    /\ resolve_call.text = <<"C", "E", " ", Nbsp>>
    /\ resolve_call.out = <<"C", "é">>

\* C16: in every cardinal's history, in memory and in its file, every round
\* is positive and greater than the round of the record before it.
C16_HistoryRoundsIncrease ==
    \A i \in Agents :
        \A h \in {voting_history[i], voting_history_file[i].records} :
            \A k \in DOMAIN h :
                /\ h[k].round > 0
                /\ k > 1 => h[k - 1].round < h[k].round

\* the records a history has beyond those it was loaded with
NewRecords(i) ==
    SubSeq(voting_history[i], Len(loaded[i]) + 1, Len(voting_history[i]))

\* C17: a cardinal's history is the history it was loaded with followed by
\* one new record for each round it has voted in: between rounds, after N
\* completed rounds, exactly N new records, the k-th of round k; within a
\* round one more for the cardinals whose turn is over. The file holds the
\* same records. No step alters, reorders or removes a record.
C17_HistoryAppendOnly ==
    /\ [](pc \in {"vote", "tally", "run_simulation", "done"} =>
            \A i \in Agents :
                LET done == IF pc \in {"vote", "tally"} /\ i >= idx
                            THEN round_number - 1 ELSE round_number
                IN  /\ Len(voting_history[i]) = Len(loaded[i]) + done
                    /\ SubSeq(voting_history[i], 1, Len(loaded[i]))
                           = loaded[i]
                    /\ \A k \in 1..done : NewRecords(i)[k].round = k
                    /\ _load_voting_history(voting_history_file[i])
                           = voting_history[i])
    /\ [][pc # "new" =>
            \A i \in Agents :
                /\ Len(voting_history'[i]) >= Len(voting_history[i])
                /\ SubSeq(voting_history'[i], 1, Len(voting_history[i]))
                       = voting_history[i]
                /\ Len(voting_history'[i]) <= Len(voting_history[i]) + 1]_vars

\* two rounds are complete and the first cardinal, loaded with one record,
\* has three
C17_Witness ==
    /\ pc = "done" /\ round_number = 2
    /\ Len(loaded[1]) = 1 /\ Len(voting_history[1]) = 3
    /\ voting_history[1][1] = loaded[1][1]

\* C18: the keys of the votes mapping of every round outcome, and of the
\* tally of the round in progress, are names of the roster.
C18_TallyKeysInRoster ==
    /\ TallyKeys(votes) \subseteq Range(cardinals)
    /\ \A r \in DOMAIN round_results :
           TallyKeys(round_results[r].votes) \subseteq Range(cardinals)

\* C19: an outcome that is in the ledger stays there as it is: no step
\* removes it or changes it.
C19_LedgerWrittenOnce ==
    [][\A r \in DOMAIN round_results :
           /\ r \in DOMAIN round_results'
           /\ round_results'[r] = round_results[r]]_vars

\* C20: with a bio file missing the constructor fails: no coordinator
\* exists, no round runs and nothing is written. With every bio file
\* present it succeeds whether or not the history files exist, and a
\* cardinal whose history file is missing starts with an empty history.
C20_BioMandatoryHistoryOptional ==
    /\ []((\E i \in Agents : ~bio_file[i]) =>
            /\ pc \in {"new", "load_failed"}
            /\ round_number = 0 /\ calls = 0 /\ round_results = <<>>
            /\ \A i \in Agents : voting_history[i] = <<>>
            /\ pc = "load_failed" => ~ENABLED NextLoad)
    /\ []((pc = "run_simulation" /\ calls = 0) =>
            \A i \in Agents :
                /\ bio_file[i]
                /\ ~voting_history_file[i].exists =>
                       voting_history[i] = <<>>
                /\ voting_history_file[i].exists =>
                       voting_history[i] = voting_history_file[i].records)
    /\ [][pc = "new" =>
            pc' = IF \E i \in Agents : ~bio_file[i] THEN "load_failed"
                  ELSE "run_simulation"]_vars

\* the second bio file is missing, so is the first history file, and the
\* constructor has failed
C20_Witness ==
    /\ pc = "load_failed" /\ ~bio_file[2] /\ bio_file[1]
    /\ ~voting_history_file[1].exists /\ voting_history_file[2].exists

\* C21: a save_vote that raises is not turned into a fallback vote: it ends
\* the round at once, and in no saved outcome is a cardinal's vote counted
\* twice, nor has a cardinal two records for the round.
C21_SaveFailureAbortsRound ==
    /\ local.kind = "save_error" => pc = "aborted"
    /\ \A r \in DOMAIN round_results :
           /\ SumCounts(round_results[r].votes) = Len(cardinals)
           /\ \A i \in Agents :
                  Cardinality(RecordsOfRound(voting_history[i], r)) <= 1

\* C22: the prompt built for a cardinal whose history is not empty states
\* the cardinal's most recent vote, in every round and whether or not the
\* ledger has an outcome for the round before.
C22_PromptStatesPriorVote ==
    (pc = "vote" /\ voting_history[idx] # <<>>) =>
        _get_voting_prompt(idx).last_vote
            = {Last(voting_history[idx]).voted_for}

\* C23: rounds do not overlap and a round's prompts see the settled round
\* before. While round r is voting its outcome is not in the ledger; for
\* r >= 2 the outcome of round r - 1 is, every cardinal has its record of
\* round r - 1, the counts stated in the prompt are that outcome's tally
\* and the frontrunners stated are those derived from that tally.
C23_PromptSeesSettledPreviousRound ==
    pc = "vote" =>
        /\ round_number \notin DOMAIN round_results
        /\ _get_voting_prompt(idx).round = round_number
        /\ round_number >= 2 =>
               /\ round_number - 1 \in DOMAIN round_results
               /\ round_results[round_number - 1].round_number
                      = round_number - 1
               /\ \A i \in Agents :
                      Cardinality(RecordsOfRound(voting_history[i],
                                                 round_number - 1)) = 1
               /\ _get_voting_prompt(idx).previous_round
                      = {round_results[round_number - 1].votes}
               /\ fr_votes = round_results[round_number - 1].votes
               /\ SumCounts(round_results[round_number - 1].votes)
                      = Len(cardinals)
               /\ _get_voting_prompt(idx).frontrunners = frontrunners
               /\ FrontrunnersOf(round_results[round_number - 1].votes)

\* the second cardinal is about to vote in round 2 and its prompt states
\* the tally and the frontrunners of round 1
C23_Witness ==
    /\ pc = "vote" /\ round_number = 2 /\ idx = 2
    /\ _get_voting_prompt(2).previous_round = {round_results[1].votes}
    /\ _get_voting_prompt(2).frontrunners # <<>>
    /\ Len(voting_history[1]) = 2 /\ Len(voting_history[2]) = 1

\* C24: the vote recorded for a cardinal depends on its own oracle outcome,
\* its own history and the frontrunners left by the round before, and on
\* nothing the other cardinals do in the round. The vote a turn records is
\* one of those that the cardinal's outcome, history and the frontrunners
\* allowed before the turn; the turn changes no other cardinal's history
\* and not the frontrunners; and for every cardinal still to vote and every
\* oracle outcome, the votes it may record are after the turn what they
\* were before it.
C24_VoteIndependentOfOtherTurns ==
    [][pc = "vote" =>
          /\ \E o \in OracleOutcomes :
                /\ o.text = local'.voted_for_raw
                /\ o.raised <=> local'.kind = "error"
                /\ local'.voted_for \in TurnChoices(idx, o)
          /\ Last(voting_history'[idx]).voted_for = local'.voted_for
          /\ \A j \in Agents \ {idx} :
                voting_history'[j] = voting_history[j]
          /\ frontrunners' = frontrunners
          /\ \A j \in Agents : \A o \in OracleOutcomes :
                j > idx => TurnChoices(j, o)' = TurnChoices(j, o)]_vars

\* in round 2 the first cardinal's oracle failed, the second one's answer
\* named nobody, and an unresolvable answer of the third still records
\* the third's own vote of round 1
C24_Witness ==
    /\ pc = "vote" /\ round_number = 2 /\ idx = 3
    /\ local.kind = "invalid" /\ local.cardinal = 2
    /\ Last(voting_history[1]).voted_for # Last(voting_history[3]).voted_for
    /\ Last(voting_history[2]).voted_for # Last(voting_history[3]).voted_for
    /\ \A o \in OracleOutcomes :
           (o.raised \/ o.text = <<"x">>) =>
               TurnChoices(3, o) = {voting_history[3][1].voted_for}

\* a tally as the mapping from names to counts
TallyMap(t) == [c \in TallyKeys(t) |-> TallyGet(t, c)]

\* C25, as stated: for the same per-cardinal oracle outcomes and random
\* picks, the round over the roster in any order has the same counts and
\* the same winner as the round over the roster as given.
C25_OrderDoesNotMatter ==
    order_call.roster # <<>> =>
        /\ TallyMap(order_call.in_order.votes)
               = TallyMap(order_call.in_roster_order.votes)
        /\ order_call.in_order.winner = order_call.in_roster_order.winner

\* C25, amended: the same, for a roster in which no two names have the same
\* normalized form.
C25_OrderDoesNotMatterWithoutAlikeNames ==
    (/\ order_call.roster # <<>>
     /\ \A i, j \in DOMAIN order_call.roster :
            _normalize_name(order_call.roster[i])
                = _normalize_name(order_call.roster[j]) => i = j) =>
        /\ TallyMap(order_call.in_order.votes)
               = TallyMap(order_call.in_roster_order.votes)
        /\ order_call.in_order.winner = order_call.in_roster_order.winner

\* the roster of the simulation taken last to first: the tally is built in
\* another order, and the counts are the same
C25_Witness ==
    /\ order_call.roster = cardinals
    /\ \A k \in Agents : order_call.order[k] = Len(cardinals) + 1 - k
    /\ order_call.in_order.votes # order_call.in_roster_order.votes
    /\ Len(order_call.in_order.votes) = 2
    /\ TallyGet(order_call.in_order.votes, cardinals[2]) = 2
    /\ TallyGet(order_call.in_roster_order.votes, cardinals[2]) = 2
    /\ order_call.inputs[1].raised /\ ~order_call.inputs[2].raised

\* C26: in a tally whose counts sum to the roster size n, for every n >= 1,
\* at most one candidate has floor(n * 2 / 3) + 1 votes or more, a number
\* above half of n; the scan reports that candidate wherever it stands in
\* the tally, and None when there is none.
C26_AtMostOneReachesThreshold ==
    scan_call.total > 0 =>
        LET n == scan_call.total
            t == scan_call.votes
            reached == {k \in DOMAIN t : t[k].count >= (n * 2) \div 3 + 1}
        IN  /\ SumCounts(t) = n
            /\ 2 * ((n * 2) \div 3 + 1) > n
            /\ Cardinality(reached) <= 1
            /\ reached = {} => scan_call.winner = None
            /\ \A k \in reached : scan_call.winner = t[k].name

\* a roster of 7: the third of three candidates has 5 votes and wins
C26_Witness ==
    /\ scan_call.total = 7 /\ Len(scan_call.votes) = 3
    /\ scan_call.votes[3].count = 5
    /\ scan_call.winner = scan_call.votes[3].name

\* C27: a turn's save_vote leaves the voting cardinal's file holding its
\* whole history in memory, which is all its earlier records followed by
\* the new one, and leaves every other cardinal's file and history as they
\* were.
C27_SaveVoteWritesWholeHistory ==
    [][pc = "vote" =>
          /\ voting_history'[idx] =
                 Append(voting_history[idx],
                        [round |-> round_number,
                         voted_for |-> local'.voted_for])
          /\ voting_history_file'[idx].exists
          /\ voting_history_file'[idx].records = voting_history'[idx]
          /\ \A j \in Agents \ {idx} :
                /\ voting_history_file'[j] = voting_history_file[j]
                /\ voting_history'[j] = voting_history[j]]_vars

\* the first cardinal, loaded with one record, has voted in round 1: its
\* file holds both records, the first as loaded, and the second cardinal's
\* file is still the one found at start-up
C27_Witness ==
    /\ pc = "vote" /\ idx = 2 /\ round_number = 1
    /\ Len(loaded[1]) = 1 /\ Len(voting_history_file[1].records) = 2
    /\ voting_history_file[1].records[1] = loaded[1][1]
    /\ voting_history_file[1].records = voting_history[1]
    /\ voting_history_file[2].records = loaded[2]

\* C28: in a simulation started with every history empty, a cardinal whose
\* history is empty is about to vote only in round 1, and then no
\* frontrunner set has been computed. So a fallback vote of a cardinal
\* without history finds no frontrunners, which leaves it the random choice,
\* and any fallback vote after round 1 is the cardinal's previous vote.
C28_NoFrontrunnerFallback ==
    /\ (pc = "vote" /\ voting_history[idx] = <<>>) =>
           /\ round_number = 1 /\ frontrunners = <<>> /\ fr_votes = <<>>
           /\ InvalidFallback(idx) = Range(eligible_cardinals)
    /\ (InRound /\ round_number >= 2) =>
           \A i \in Agents : voting_history[i] # <<>>
    /\ (InRound /\ local.kind \in {"invalid", "error"}) =>
           LET h == voting_history[local.cardinal]
           IN  IF round_number = 1
               THEN Len(h) = 1 /\ frontrunners = <<>>
               ELSE /\ Len(h) >= 2
                    /\ local.voted_for = h[Len(h) - 1].voted_for

\* round 1: the first cardinal's oracle failed and it voted at random for
\* the third; the second cardinal, without history, is about to vote and
\* there are no frontrunners
C28_Witness ==
    /\ pc = "vote" /\ round_number = 1 /\ idx = 2
    /\ local.kind = "error" /\ local.voted_for = cardinals[3]
    /\ voting_history[2] = <<>> /\ frontrunners = <<>>

====
